---- MODULE Spec2Model ----
(***************************************************************************)
(* Model of bluetooth.py: the iBeacon and Eddystone advertisement          *)
(* decoders, the RecordRSSI history, scan_for_beacons and the              *)
(* distanceCalculate pipeline driven by the __main__ block.                *)
(*                                                                         *)
(* Bytes are integers 0..255, a bytes object is a sequence of them, a str  *)
(* is a TLA+ string.  Python's None is the record None.  A try body is     *)
(* modelled by its outcome: a returned value or a raised exception.        *)
(* Floats are fixed-point integers with Scale units per 1.0.               *)
(***************************************************************************)
EXTENDS Integers, Sequences, FiniteSets, TLC

VARIABLES
    manufacturer_data,  \* argument of parse_ibeacon
    ibeacon,            \* outcome of the parse_ibeacon call
    service_data,       \* argument of parse_eddystone: <<uuid, data>> pairs in iteration order
    eddystone,          \* outcome of the parse_eddystone call
    rssidict,           \* RecordRSSI.rssidict of every RecordRSSI object
    calls,              \* history of record_data calls: <<object, address, rssi>>
    lastScan,           \* arguments and discovery result of the last scan_for_beacons call
    pc,                 \* position of the __main__ block
    scans,              \* number of completed iterations of the scan loop
    b,                  \* b1, b2, b3: outcomes of the distanceCalculate calls
    filtered_calls      \* number of KalmanFilter.filter calls made so far

vars == <<manufacturer_data, ibeacon, service_data, eddystone, rssidict,
          calls, lastScan, pc, scans, b, filtered_calls>>

----------------------------------------------------------------------------
(* Python values and helpers *)

None == [type |-> "None"]
\* a call that has not been made yet
Pending == [kind |-> "pending"]

Return(v) == [kind |-> "return", value |-> v]
Raise(e) == [kind |-> "raise", exc |-> e]

Min(x, y) == IF x <= y THEN x ELSE y

\* s[lo:hi] for 0 <= lo, 0 <= hi: out-of-range bounds are clamped, never an error
Slice(s, lo, hi) ==
    IF lo >= Min(hi, Len(s)) THEN SubSeq(s, 1, 0)
    ELSE SubSeq(s, lo + 1, Min(hi, Len(s)))

\* s[lo:]
SliceFrom(s, lo) == Slice(s, lo, Len(s))

Take(s, n) == Slice(s, 0, n)

HexDigits == "0123456789abcdef"

HexDigit(n) == SubSeq(HexDigits, n + 1, n + 1)

\* bytes.hex(): two lowercase hex digits per byte, no separators
RECURSIVE hex(_)
hex(bs) ==
    IF bs = <<>> THEN ""
    ELSE HexDigit(Head(bs) \div 16) \o HexDigit(Head(bs) % 16) \o hex(Tail(bs))

\* struct_unpack_HHb with the format '<HHB': little-endian shorts, unsigned char
struct_unpack_HHb_le(bs) ==
    IF Len(bs) # 5 THEN Raise("struct.error")
    ELSE Return(<<bs[2] * 256 + bs[1], bs[4] * 256 + bs[3], bs[5]>>)

\* struct.unpack('>HHb', bs): two big-endian unsigned shorts and a signed char;
\* a buffer that is not exactly 5 bytes long raises struct.error
struct_unpack_HHb(bs) ==
    IF Len(bs) # 5 THEN Raise("struct.error")
    ELSE Return(<<bs[1] * 256 + bs[2],
                  bs[3] * 256 + bs[4],
                  IF bs[5] >= 128 THEN bs[5] - 256 ELSE bs[5]>>)

----------------------------------------------------------------------------
(* parse_ibeacon *)

IBeaconPrefix == <<76, 0, 2, 21>>      \* b'\x4c\x00\x02\x15'

\* the body of the try block
parse_ibeacon_try(md) ==
    LET prefix == Slice(md, 0, 4) IN
    IF prefix # IBeaconPrefix THEN Return(None)
    ELSE LET uuid == hex(Slice(md, 4, 20))
             unpacked == struct_unpack_HHb(Slice(md, 20, 25))
         IN  IF unpacked.kind = "raise" THEN unpacked
             ELSE Return([type |-> "iBeacon",
                          uuid |-> uuid,
                          major |-> unpacked.value[1],
                          minor |-> unpacked.value[2],
                          tx_power |-> unpacked.value[3]])

\* parse_ibeacon without the except clause
parse_ibeacon_propagating(md) == parse_ibeacon_try(md)

\* try: ... except: return None
parse_ibeacon(md) ==
    LET r == parse_ibeacon_try(md) IN
    IF r.kind = "raise" THEN Return(None) ELSE r

----------------------------------------------------------------------------
(* parse_eddystone *)

EddystonePrefix == "0000feaa-"

\* str.startswith
startswith(s, prefix) ==
    /\ Len(s) >= Len(prefix)
    /\ SubSeq(s, 1, Len(prefix)) = prefix

IsCont(x) == x >= 128 /\ x <= 191

\* bytes.decode('utf-8') in strict mode; the text is the sequence of its code
\* points, an ill-formed or truncated sequence raises UnicodeDecodeError
RECURSIVE utf8_decode(_)
utf8_decode(bs) ==
    IF bs = <<>> THEN Return(<<>>)
    ELSE
      LET b0 == bs[1]
          n  == IF b0 < 128 THEN 1
                ELSE IF b0 >= 194 /\ b0 <= 223 THEN 2
                ELSE IF b0 >= 224 /\ b0 <= 239 THEN 3
                ELSE IF b0 >= 240 /\ b0 <= 244 THEN 4
                ELSE 0
          lo2 == IF b0 = 224 THEN 160 ELSE IF b0 = 240 THEN 144 ELSE 128
          hi2 == IF b0 = 237 THEN 159 ELSE IF b0 = 244 THEN 143 ELSE 191
          ok == /\ n > 0
                /\ Len(bs) >= n
                /\ n >= 2 => (bs[2] >= lo2 /\ bs[2] <= hi2)
                /\ n >= 3 => IsCont(bs[3])
                /\ n >= 4 => IsCont(bs[4])
          cp == IF n = 1 THEN b0
                ELSE IF n = 2 THEN (b0 - 192) * 64 + (bs[2] - 128)
                ELSE IF n = 3 THEN (b0 - 224) * 4096 + (bs[2] - 128) * 64 + (bs[3] - 128)
                ELSE (b0 - 240) * 262144 + (bs[2] - 128) * 4096
                     + (bs[3] - 128) * 64 + (bs[4] - 128)
      IN  IF ~ok THEN Raise("UnicodeDecodeError")
          ELSE LET rest == utf8_decode(SliceFrom(bs, n)) IN
               IF rest.kind = "raise" THEN rest
               ELSE Return(<<cp>> \o rest.value)

\* data[i] on a bytes object: an int 0..255, IndexError past the end
byte_at(data, i) ==
    IF i < Len(data) THEN Return(data[i + 1]) ELSE Raise("IndexError")

\* the UID branch: the dict display of lines 55-60
eddystone_uid(data) ==
    LET tx == byte_at(data, 1) IN
    IF tx.kind = "raise" THEN tx
    ELSE Return([type |-> "Eddystone-UID",
                 namespace |-> hex(Slice(data, 2, 12)),
                 instance |-> hex(Slice(data, 12, 18)),
                 tx_power |-> tx.value])

\* the URL branch: the dict display of lines 62-66
eddystone_url(data) ==
    LET url == utf8_decode(SliceFrom(data, 2))
        tx == byte_at(data, 1)
    IN  IF url.kind = "raise" THEN url
        ELSE IF tx.kind = "raise" THEN tx
        ELSE Return([type |-> "Eddystone-URL",
                     url |-> url.value,
                     tx_power |-> tx.value])

\* the body of the try block: the for loop over service_data.items()
RECURSIVE parse_eddystone_try(_)
parse_eddystone_try(items) ==
    IF items = <<>> THEN Return(None)
    ELSE
      LET uuid == Head(items)[1]
          data == Head(items)[2]
      IN  IF startswith(uuid, EddystonePrefix)
          THEN LET frame_type == byte_at(data, 0) IN
               IF frame_type.kind = "raise" THEN frame_type
               ELSE IF frame_type.value = 0 THEN eddystone_uid(data)
               ELSE IF frame_type.value = 16 THEN eddystone_url(data)
               ELSE parse_eddystone_try(Tail(items))
          ELSE parse_eddystone_try(Tail(items))

\* try: ... except: return None
parse_eddystone(items) ==
    LET r == parse_eddystone_try(items) IN
    IF r.kind = "raise" THEN Return(None) ELSE r

----------------------------------------------------------------------------
(* RecordRSSI *)

\* the RecordRSSI objects: the module global `record` of line 142 and one
\* more object a caller may construct
GlobalRecord == "record"
Recorders == {GlobalRecord, "other"}

\* a dict is a function whose domain is its key set
EmptyDict == [k \in {} |-> <<>>]

DictSet(d, k, v) == [x \in (DOMAIN d) \cup {k} |-> IF x = k THEN v ELSE d[x]]

\* record_data inserting at the front of the list
record_data_front(d, address, rssi) ==
    LET d1 == IF address \notin DOMAIN d THEN DictSet(d, address, <<>>) ELSE d
    IN  [d1 EXCEPT ![address] = <<rssi>> \o @]

\* RecordRSSI.record_data on the object whose rssidict is d
record_data(d, address, rssi) ==
    LET d1 == IF address \notin DOMAIN d THEN DictSet(d, address, <<>>) ELSE d
    IN  [d1 EXCEPT ![address] = Append(@, rssi)]

\* RecordRSSI.rssi_values
rssi_values(o) == rssidict[o]

----------------------------------------------------------------------------
(* scan_for_beacons *)

filter_beacons == <<"EC:81:F6:64:F0:86", "E0:35:2F:E6:42:46", "EC:BF:B3:25:D5:6C">>

InList(x, l) == \E i \in 1..Len(l) : l[i] = x

\* the iBeacon frame of a beacon: prefix, 16 uuid bytes, major 1, minor 2, tx -59
SampleIBeacon == IBeaconPrefix \o [i \in 1..16 |-> 17 * (i - 1)] \o <<0, 1, 0, 2, 197>>

\* an Eddystone-UID frame: type 0x00, tx 0xEB, namespace 01 x 10, instance 02 x 6
SampleUid == <<0, 235>> \o [i \in 1..10 |-> 1] \o [i \in 1..6 |-> 2]

\* the advertisement each device in range sends: manufacturer_data as
\* <<manufacturer_id, data>> pairs, service_data as <<uuid, data>> pairs
AdvOf(address) ==
    IF address = filter_beacons[1]
      THEN [manufacturer_data |-> << <<76, SampleIBeacon>> >>, service_data |-> <<>>]
    ELSE IF address = filter_beacons[2]
      THEN [manufacturer_data |-> <<>>,
            service_data |-> << <<"0000feaa-0000-1000-8000-00805f9b34fb", SampleUid>> >>]
    ELSE IF address = filter_beacons[3]
      THEN [manufacturer_data |-> << <<89, <<1, 2, 3>> >> >>, service_data |-> <<>>]
    ELSE [manufacturer_data |-> << <<76, <<16, 5, 1>> >> >>,
          service_data |-> << <<"0000180f-0000-1000-8000-00805f9b34fb", <<100>> >> >>]

\* lines 99-106: the beacon types printed for the manufacturer data entries
RECURSIVE ibeacon_lines(_)
ibeacon_lines(entries) ==
    IF entries = <<>> THEN <<>>
    ELSE LET r == parse_ibeacon(Head(entries)[2]).value IN
         (IF r # None THEN <<r.type>> ELSE <<>>) \o ibeacon_lines(Tail(entries))

\* lines 109-118: the beacon type printed for the service data
eddystone_lines(sd) ==
    IF sd = <<>> THEN <<>>
    ELSE LET r == parse_eddystone(sd).value IN
         IF r # None THEN <<r.type>> ELSE <<>>

\* the for loop of lines 89-120 over devices.values(), its effect on the
\* RecordRSSI objects: rd is the rssidict of every object
RECURSIVE scan_loop(_, _, _)
scan_loop(rd, beaconfilter, devices) ==
    IF devices = <<>> THEN rd
    ELSE
      LET device == Head(devices) IN
      IF ~InList(device.address, beaconfilter)
      THEN scan_loop(rd, beaconfilter, Tail(devices))
      ELSE scan_loop([rd EXCEPT ![GlobalRecord] =
                            record_data(@, device.address, device.rssi)],
                     beaconfilter, Tail(devices))

\* the same loop, its output: per device of the filter the address printed on
\* line 93 and the beacon types printed on lines 103 and 112
RECURSIVE scan_printed(_, _)
scan_printed(beaconfilter, devices) ==
    IF devices = <<>> THEN <<>>
    ELSE
      LET device == Head(devices)
          adv == AdvOf(device.address)
      IN  IF ~InList(device.address, beaconfilter)
          THEN scan_printed(beaconfilter, Tail(devices))
          ELSE <<device.address>>
               \o ibeacon_lines(adv.manufacturer_data)
               \o eddystone_lines(adv.service_data)
               \o scan_printed(beaconfilter, Tail(devices))

\* scan_for_beacons(recorder, beaconfilter): devices is what
\* BleakScanner.discover returned; the rssidict of every object after the call
scan_for_beacons(rd, recorder, beaconfilter, devices) ==
    scan_loop(rd, beaconfilter, devices)

----------------------------------------------------------------------------
(* Numbers: a float v is the integer v * Scale, rounded down *)

Scale == 10 * 10 * 10

RECURSIVE SumSeq(_)
SumSeq(s) == IF s = <<>> THEN 0 ELSE Head(s) + SumSeq(Tail(s))

RECURSIVE SumSqSeq(_)
SumSqSeq(s) == IF s = <<>> THEN 0 ELSE Head(s) * Head(s) + SumSqSeq(Tail(s))

\* the largest r in lo..hi with r * r <= v, by bisection
RECURSIVE isqrt_between(_, _, _)
isqrt_between(v, lo, hi) ==
    IF lo >= hi THEN lo
    ELSE LET mid == (lo + hi + 1) \div 2 IN
         IF mid * mid <= v THEN isqrt_between(v, mid, hi)
         ELSE isqrt_between(v, lo, mid - 1)

isqrt(v) == isqrt_between(v, 0, 46340)

\* a deviation that is 0 for fewer than two data points
stdev_lenient(data) ==
    LET n == Len(data)
        num == n * SumSqSeq(data) - SumSeq(data) * SumSeq(data)
        den == n * (n - 1)
    IN  IF n < 2 THEN Return(0)
        ELSE Return(isqrt((num \div den) * Scale * Scale
                          + ((num % den) * Scale * Scale) \div den))

\* statistics.stdev: the square root of the sample variance
\* sum((x - mean)^2) / (n - 1) = (n * sum(x^2) - sum(x)^2) / (n * (n - 1));
\* fewer than two data points raise StatisticsError
stdev(data) ==
    LET n == Len(data)
        num == n * SumSqSeq(data) - SumSeq(data) * SumSeq(data)
        den == n * (n - 1)
    IN  IF n < 2 THEN Raise("StatisticsError")
        ELSE Return(isqrt((num \div den) * Scale * Scale
                          + ((num % den) * Scale * Scale) \div den))

\* 10 ** (j / 20) for j = 0..20, in units of 1/1000
Pow10Table == <<1000, 1122, 1259, 1413, 1585, 1778, 1995, 2239, 2512, 2818,
                3162, 3548, 3981, 4467, 5012, 5623, 6310, 7079, 7943, 8913,
                10000>>

RECURSIVE IntPow10(_)
IntPow10(k) == IF k = 0 THEN 1 ELSE 10 * IntPow10(k - 1)

\* 10 ** e for the fixed-point exponent e: the integer part of e shifts the
\* decimal point, the fraction is interpolated in Pow10Table
Pow10(e) ==
    LET ip == e \div Scale
        fr == e % Scale
        idx == (fr * 20) \div Scale
        part == (fr * 20) % Scale
        base == Pow10Table[idx + 1]
                + ((Pow10Table[idx + 2] - Pow10Table[idx + 1]) * part) \div Scale
        unit == (base * Scale) \div 1000
    IN  IF ip >= 0 THEN unit * IntPow10(ip) ELSE unit \div IntPow10(-ip)

\* 10**((mRSSI - value)/(10*txPower)), value a fixed-point number
distance(mRSSI, value, txPower) ==
    Pow10((mRSSI * Scale - value) \div (10 * txPower))

----------------------------------------------------------------------------
(* kalman.KalmanFilter: the scalar filter of the design, section 4.3 *)

ProcessNoise == (8 * Scale) \div 1000      \* 0.008

\* KalmanFilter(process_noise, measurement_noise)
KalmanFilter(process_noise, measurement_noise) ==
    [has_estimate |-> FALSE,
     estimate |-> 0,
     error_covariance |-> Scale,
     process_noise |-> process_noise,
     measurement_noise |-> measurement_noise]

\* KalmanFilter.filter(x): the state after the sample; its estimate is the
\* value returned
kalman_filter(k, x) ==
    IF ~k.has_estimate
    THEN [k EXCEPT !.has_estimate = TRUE, !.estimate = x * Scale,
                   !.error_covariance = Scale]
    ELSE LET cov == k.error_covariance + k.process_noise
             gain == (cov * Scale) \div (cov + k.measurement_noise)
         IN  [k EXCEPT !.estimate = @ + (gain * (x * Scale - @)) \div Scale,
                       !.error_covariance = (cov * (Scale - gain)) \div Scale]

----------------------------------------------------------------------------
(* distanceCalculate *)

\* the loop appending a filtered distance only once the filter has a prior
RECURSIVE distance_loop_warmup(_, _, _, _, _, _)
distance_loop_warmup(test, samples, mRSSI, txPower, raw_distanceArray, filtered_distanceArray) ==
    IF samples = <<>>
    THEN [raw |-> raw_distanceArray, filtered |-> filtered_distanceArray]
    ELSE LET x == Head(samples)
             test1 == kalman_filter(test, x)
         IN  distance_loop_warmup(test1, Tail(samples), mRSSI, txPower,
                 Append(raw_distanceArray, distance(mRSSI, x * Scale, txPower)),
                 IF test.has_estimate
                 THEN Append(filtered_distanceArray,
                             distance(mRSSI, test1.estimate, txPower))
                 ELSE filtered_distanceArray)

\* the loop filtering each sample together with the one that follows it
RECURSIVE distance_loop_peek(_, _, _, _, _, _)
distance_loop_peek(test, samples, mRSSI, txPower, raw_distanceArray, filtered_distanceArray) ==
    IF samples = <<>>
    THEN [raw |-> raw_distanceArray, filtered |-> filtered_distanceArray]
    ELSE LET x == Head(samples)
             ahead == IF Len(samples) > 1 THEN samples[2] ELSE x
             test1 == kalman_filter(test, (x + ahead) \div 2)
         IN  distance_loop_peek(test1, Tail(samples), mRSSI, txPower,
                 Append(raw_distanceArray, distance(mRSSI, x * Scale, txPower)),
                 Append(filtered_distanceArray,
                        distance(mRSSI, test1.estimate, txPower)))

\* the for loop of lines 126-133 over rssi_dict[mac_address]
RECURSIVE distance_loop(_, _, _, _, _, _)
distance_loop(test, samples, mRSSI, txPower, raw_distanceArray, filtered_distanceArray) ==
    IF samples = <<>>
    THEN [raw |-> raw_distanceArray, filtered |-> filtered_distanceArray]
    ELSE LET x == Head(samples)
             test1 == kalman_filter(test, x)
             filteredValue == test1.estimate
             raw_distance == distance(mRSSI, x * Scale, txPower)
             filtered_distance == distance(mRSSI, filteredValue, txPower)
         IN  distance_loop(test1, Tail(samples), mRSSI, txPower,
                           Append(raw_distanceArray, raw_distance),
                           Append(filtered_distanceArray, filtered_distance))

\* distanceCalculate(mac_address, mRSSI, txPower) reading the global rssi_dict:
\* its outcome and the number of KalmanFilter.filter calls it made
distanceCalculate(rssi_dict, mac_address, mRSSI, txPower) ==
    IF mac_address \notin DOMAIN rssi_dict
    THEN [outcome |-> Raise("KeyError"), filter_calls |-> 0]
    ELSE LET sd == stdev(rssi_dict[mac_address]) IN
         IF sd.kind = "raise" THEN [outcome |-> sd, filter_calls |-> 0]
         ELSE [outcome |-> Return(distance_loop(KalmanFilter(ProcessNoise, sd.value),
                                                rssi_dict[mac_address],
                                                mRSSI, txPower, <<>>, <<>>)),
               filter_calls |-> Len(rssi_dict[mac_address])]

\* the reference RSSI of the three calls of lines 149-151
RefRssi == <<-59, -65, -62>>

PathLoss == 2

----------------------------------------------------------------------------
(* Bounds and inputs *)

MaxExtra == 2       \* bytes after the 25-byte iBeacon frame
MaxEntries == 2     \* entries of a service_data mapping
MaxCalls == 3       \* record_data calls of a RecordRSSI client
MaxDevices == 2     \* devices one discovery returns
MaxApiCalls == 2    \* scan_for_beacons calls of a caller other than __main__
NumScans == 3       \* iterations of the scan loop of __main__

Prefixes == {IBeaconPrefix, <<76, 0, 2, 22>>, <<77, 0, 2, 21>>,
             <<76, 1, 2, 21>>, <<0, 0, 0, 0>>}

Uuids16 == {[i \in 1..16 |-> 0], [i \in 1..16 |-> 255],
            <<1, 35, 69, 103, 137, 171, 205, 239, 254, 220, 186, 152, 118, 84, 50, 16>>}

Majors == {<<0, 1>>, <<1, 0>>, <<255, 254>>}
Minors == {<<0, 2>>, <<2, 0>>, <<128, 127>>}
TxBytes == {0, 127, 128, 197, 254}
TailBytes == {0, 255}

\* iBeacon-like frames cut at every length
Buffers ==
    {Take(p \o u \o ma \o mi \o <<tx>> \o t, n) :
        p \in Prefixes, u \in Uuids16, ma \in Majors, mi \in Minors,
        tx \in TxBytes, t \in [1..MaxExtra -> TailBytes], n \in 0..(25 + MaxExtra)}

ServiceUuids == {"0000feaa-0000-1000-8000-00805f9b34fb",
                 "0000feaa-0000-0000-0000-000000000001",
                 "0000180f-0000-1000-8000-00805f9b34fb",
                 "0000FEAA-0000-1000-8000-00805f9b34fb"}

UrlFrame == <<16, 236, 104, 116, 116, 112, 58, 47, 47, 120>>   \* "http://x"

Payloads ==
    {Take(SampleUid \o <<3>>, n) : n \in {0, 1, 2, 3, 12, 17, 18, 19}}
    \cup {Take(UrlFrame, n) : n \in {1, 2, 3, 10}}
    \cup {<<16, 197, 195>>, <<16, 197, 195, 169>>, <<16, 20, 104, 255>>,
          <<32>>, <<32, 0, 11, 184>>, <<0, 127, 9>>}

ServiceEntries == ServiceUuids \X Payloads

\* mappings: sequences of entries with pairwise distinct keys
ServiceDatas ==
    UNION {{sd \in [1..n -> ServiceEntries] :
               \A i, j \in 1..n : i # j => sd[i][1] # sd[j][1]} :
           n \in 0..MaxEntries}

Addresses == {filter_beacons[i] : i \in 1..3} \cup {"AA:BB:CC:DD:EE:FF"}
RssiVals == {-60, -40}

Devices == [address : Addresses, rssi : RssiVals]

\* what one discovery returns: devices with pairwise distinct addresses
Discoveries ==
    UNION {{ds \in [1..n -> Devices] :
               \A i, j \in 1..n : i # j => ds[i].address # ds[j].address} :
           n \in 0..MaxDevices}

----------------------------------------------------------------------------
(* Initial values *)

NoDecoderCall ==
    /\ manufacturer_data = <<>>
    /\ ibeacon = Pending
    /\ service_data = <<>>
    /\ eddystone = Pending

NoRecorderCall ==
    /\ rssidict = [o \in Recorders |-> EmptyDict]
    /\ calls = <<>>
    /\ lastScan = None

NoMainRun ==
    /\ scans = 0
    /\ b = [i \in 1..3 |-> Pending]
    /\ filtered_calls = 0

decoderVars == <<manufacturer_data, ibeacon, service_data, eddystone>>
mainVars == <<pc, scans, b, filtered_calls>>

----------------------------------------------------------------------------
(* A call of parse_ibeacon on a buffer *)

InitIBeacon ==
    /\ manufacturer_data \in Buffers
    /\ ibeacon = Pending
    /\ service_data = <<>>
    /\ eddystone = Pending
    /\ NoRecorderCall
    /\ NoMainRun
    /\ pc = "idle"

ParseIBeacon ==
    /\ ibeacon = Pending
    /\ ibeacon' = parse_ibeacon(manufacturer_data)
    /\ UNCHANGED <<manufacturer_data, service_data, eddystone, rssidict, calls,
                   lastScan, pc, scans, b, filtered_calls>>

SpecIBeacon == InitIBeacon /\ [][ParseIBeacon]_vars

(* A call of parse_eddystone on a mapping *)

InitEddystone ==
    /\ manufacturer_data = <<>>
    /\ ibeacon = Pending
    /\ service_data \in ServiceDatas
    /\ eddystone = Pending
    /\ NoRecorderCall
    /\ NoMainRun
    /\ pc = "idle"

ParseEddystone ==
    /\ eddystone = Pending
    /\ eddystone' = parse_eddystone(service_data)
    /\ UNCHANGED <<manufacturer_data, ibeacon, service_data, rssidict, calls,
                   lastScan, pc, scans, b, filtered_calls>>

SpecEddystone == InitEddystone /\ [][ParseEddystone]_vars

(* A client of RecordRSSI *)

InitRecord ==
    /\ NoDecoderCall
    /\ NoRecorderCall
    /\ NoMainRun
    /\ pc = "idle"

RecordData ==
    /\ Len(calls) < MaxCalls
    /\ \E o \in Recorders, address \in Addresses, rssi \in RssiVals :
          /\ rssidict' = [rssidict EXCEPT ![o] = record_data(@, address, rssi)]
          /\ calls' = Append(calls, <<o, address, rssi>>)
    /\ UNCHANGED <<decoderVars, lastScan, mainVars>>

SpecRecord == InitRecord /\ [][RecordData]_vars

(* A caller of scan_for_beacons *)

InitScan ==
    /\ NoDecoderCall
    /\ NoRecorderCall
    /\ NoMainRun
    /\ pc = "idle"

ApiScan ==
    /\ scans < MaxApiCalls
    /\ \E recorder \in Recorders, devices \in Discoveries :
          /\ rssidict' = scan_for_beacons(rssidict, recorder, filter_beacons, devices)
          /\ lastScan' = [recorder |-> recorder,
                          beaconfilter |-> filter_beacons,
                          devices |-> devices,
                          printed |-> scan_printed(filter_beacons, devices)]
    /\ scans' = scans + 1
    /\ UNCHANGED <<decoderVars, calls, pc, b, filtered_calls>>

SpecScan == InitScan /\ [][ApiScan]_vars

----------------------------------------------------------------------------
(* The __main__ block, lines 140-151 *)

Init ==
    /\ NoDecoderCall
    /\ NoRecorderCall
    /\ NoMainRun
    /\ pc = "scan"

\* line 147: one iteration of the scan loop
MainScan ==
    /\ pc = "scan"
    /\ scans < NumScans
    /\ \E devices \in Discoveries :
          rssidict' = scan_for_beacons(rssidict, GlobalRecord,
                                       filter_beacons, devices)
    /\ scans' = scans + 1
    /\ UNCHANGED <<decoderVars, calls, lastScan, pc, b, filtered_calls>>

\* line 148: rssi_dict = record.rssi_values()
MainRssiValues ==
    /\ pc = "scan"
    /\ scans = NumScans
    /\ pc' = "b1"
    /\ UNCHANGED <<decoderVars, rssidict, calls, lastScan, scans, b, filtered_calls>>

\* b<i> = distanceCalculate(...); an exception ends the run in the handler
\* of line 187
MainCalc(i, here, next) ==
    /\ pc = here
    /\ LET r == distanceCalculate(rssi_values(GlobalRecord), filter_beacons[i],
                                  RefRssi[i], PathLoss)
       IN  /\ b' = [b EXCEPT ![i] = r.outcome]
           /\ filtered_calls' = filtered_calls + r.filter_calls
           /\ pc' = IF r.outcome.kind = "raise" THEN "error" ELSE next
    /\ UNCHANGED <<decoderVars, rssidict, calls, lastScan, scans>>

MainB1 == MainCalc(1, "b1", "b2")
MainB2 == MainCalc(2, "b2", "b3")
MainB3 == MainCalc(3, "b3", "plot")

Next == MainScan \/ MainRssiValues \/ MainB1 \/ MainB2 \/ MainB3

Spec == Init /\ [][Next]_vars

----------------------------------------------------------------------------
(* Properties of parse_ibeacon, checked under SpecIBeacon *)

HasIBeaconPrefix(md) ==
    /\ Len(md) >= 4
    /\ md[1] = 76 /\ md[2] = 0 /\ md[3] = 2 /\ md[4] = 21

LowerHex(n) == SubSeq("0123456789abcdef", n + 1, n + 1)

Signed8(x) == IF x >= 128 THEN x - 256 ELSE x

\* C1: parse_ibeacon never raises; it returns an iBeacon record exactly when
\* the buffer starts with 4C 00 02 15 and has at least 25 bytes, and None for
\* every other buffer.
C1_IBeaconOnlyOnFullFrame ==
    ibeacon # Pending =>
        /\ ibeacon.kind = "return"
        /\ ibeacon.value.type \in {"iBeacon", "None"}
        /\ (ibeacon.value.type = "iBeacon") <=>
               (HasIBeaconPrefix(manufacturer_data) /\ Len(manufacturer_data) >= 25)
        /\ (ibeacon.value.type = "None") => (ibeacon.value = None)

\* the prefix matches but the frame is one byte short: struct.unpack fails
C1_Witness ==
    /\ ibeacon # Pending
    /\ HasIBeaconPrefix(manufacturer_data)
    /\ Len(manufacturer_data) = 24
    /\ ibeacon = Return(None)

\* C2: for a buffer of at least 25 bytes with the prefix, uuid is bytes 4-19 as
\* 32 lowercase hex digits, major and minor are the big-endian unsigned shorts
\* of bytes 20-21 and 22-23, tx_power is byte 24 as a signed byte, and the
\* bytes from index 25 on do not change the record.
C2_IBeaconFields ==
    (ibeacon # Pending /\ HasIBeaconPrefix(manufacturer_data)
                       /\ Len(manufacturer_data) >= 25) =>
        LET md == manufacturer_data
            r == ibeacon.value
        IN  /\ ibeacon.kind = "return"
            /\ r.type = "iBeacon"
            /\ Len(r.uuid) = 32
            /\ \A i \in 1..16 :
                  /\ SubSeq(r.uuid, 2 * i - 1, 2 * i - 1) = LowerHex(md[4 + i] \div 16)
                  /\ SubSeq(r.uuid, 2 * i, 2 * i) = LowerHex(md[4 + i] % 16)
            /\ r.major = md[21] * 256 + md[22]
            /\ r.minor = md[23] * 256 + md[24]
            /\ r.tx_power = Signed8(md[25])
            /\ ibeacon = parse_ibeacon(SubSeq(md, 1, 25))

\* the frame of the design's example followed by further bytes
C2_Witness ==
    /\ Len(manufacturer_data) > 25
    /\ ibeacon = Return([type |-> "iBeacon",
                         uuid |-> "00000000000000000000000000000000",
                         major |-> 1, minor |-> 2, tx_power |-> -2])

----------------------------------------------------------------------------
(* Properties of parse_eddystone, checked under SpecEddystone *)

IsTagged(entry) == SubSeq(entry[1], 1, 9) = "0000feaa-"

TaggedIndexes == {i \in 1..Len(service_data) : IsTagged(service_data[i])}

FirstTagged == CHOOSE i \in TaggedIndexes : \A j \in TaggedIndexes : i <= j

\* C3: an Eddystone-UID record always has a 20-digit namespace and a 12-digit
\* instance; a UID frame shorter than 18 bytes and a URL frame shorter than 2
\* bytes give None.
C3_NoPartialRecord ==
    eddystone # Pending =>
        /\ eddystone.value.type = "Eddystone-UID" =>
              /\ Len(eddystone.value.namespace) = 20
              /\ Len(eddystone.value.instance) = 12
        /\ \A i \in TaggedIndexes :
              LET data == service_data[i][2] IN
              (Len(service_data) = 1 /\ Len(data) >= 1) =>
                  /\ (data[1] = 0 /\ Len(data) < 18) => eddystone.value = None
                  /\ (data[1] = 16 /\ Len(data) < 2) => eddystone.value = None

\* C4: tx_power of every Eddystone record is byte 1 of the decoded payload read
\* as a signed byte, so it lies in -128..127.
C4_TxPowerSigned ==
    (eddystone # Pending /\ eddystone.value # None) =>
        /\ eddystone.value.tx_power \in -128..127
        /\ \E i \in TaggedIndexes :
              /\ Len(service_data[i][2]) >= 2
              /\ eddystone.value.tx_power = Signed8(service_data[i][2][2])

\* C5: the result is the decoding of the first entry whose UUID starts with
\* 0000feaa- and of that entry alone: None when its frame type is neither 0x00
\* nor 0x10, whatever the later entries hold, and None when no entry is tagged.
C5_OnlyFirstTagged ==
    eddystone # Pending =>
        IF TaggedIndexes = {} THEN eddystone = Return(None)
        ELSE LET entry == service_data[FirstTagged] IN
             /\ eddystone = parse_eddystone(<<entry>>)
             /\ (Len(entry[2]) >= 1 /\ entry[2][1] \notin {0, 16}) =>
                    eddystone = Return(None)

----------------------------------------------------------------------------
(* Properties of RecordRSSI, checked under SpecRecord *)

\* the rssi values of the record_data calls made on object o for an address
RECURSIVE Recorded(_, _, _)
Recorded(log, o, address) ==
    IF log = <<>> THEN <<>>
    ELSE (IF Head(log)[1] = o /\ Head(log)[2] = address THEN <<Head(log)[3]>> ELSE <<>>)
         \o Recorded(Tail(log), o, address)

\* C6: for every object and address, the history is exactly the rssi values
\* recorded for that address on that object, in call order; an address never
\* recorded has no history.
C6_HistoryIsCallOrder ==
    \A o \in Recorders : \A address \in Addresses :
        IF Recorded(calls, o, address) = <<>>
        THEN address \notin DOMAIN rssi_values(o)
        ELSE /\ address \in DOMAIN rssi_values(o)
             /\ rssi_values(o)[address] = Recorded(calls, o, address)

\* two different values recorded for one address around a call for another
C6_Witness ==
    /\ Len(calls) = 3
    /\ calls[1][1] = calls[3][1] /\ calls[1][2] = calls[3][2]
    /\ calls[1][3] # calls[3][3]
    /\ calls[2][2] # calls[1][2]
    /\ rssi_values(calls[1][1])[calls[1][2]] = <<calls[1][3], calls[3][3]>>

----------------------------------------------------------------------------
(* Properties of distanceCalculate, checked under Spec *)

\* the history distanceCalculate reads for b<i>
HistoryOf(i) == rssi_values(GlobalRecord)[filter_beacons[i]]

Prefix(h, n) == SubSeq(h, 1, n)

\* the filter state after consuming the samples in recorded order, starting
\* from a fresh filter with the given measurement noise
RECURSIVE SmoothedAfter(_, _)
SmoothedAfter(samples, noise) ==
    IF samples = <<>> THEN KalmanFilter(ProcessNoise, noise)
    ELSE kalman_filter(SmoothedAfter(Prefix(samples, Len(samples) - 1), noise),
                       samples[Len(samples)])

\* the series is index-aligned with the history h of b<i>
SeriesAligned(i, series, h) ==
    /\ Len(series.raw) = Len(h)
    /\ Len(series.filtered) = Len(h)
    /\ \A j \in 1..Len(h) :
          /\ series.raw[j] = distance(RefRssi[i], h[j] * Scale, PathLoss)
          /\ series.filtered[j] =
                 distance(RefRssi[i],
                          SmoothedAfter(Prefix(h, j), stdev(h).value).estimate,
                          PathLoss)

C7_Step ==
    \A i \in 1..3 :
        (b[i] = Pending /\ b'[i].kind = "return") =>
            /\ rssidict' = rssidict
            /\ SeriesAligned(i, b'[i].value, HistoryOf(i))

\* C7: a returned series has raw and filtered arrays as long as the history,
\* raw[j] is the distance of sample j, filtered[j] the distance of the smoother
\* output after samples 1..j in recorded order, and the call leaves the
\* history as it was.
C7_SeriesAlignedWithHistory == [][C7_Step]_vars

\* a series over a history of three samples that are not all equal
C7_Witness ==
    /\ b[1].kind = "return"
    /\ Len(HistoryOf(1)) = 3
    /\ HistoryOf(1)[1] # HistoryOf(1)[3]
    /\ Len(b[1].value.filtered) = 3

RECURSIVE FilterCallsUpTo(_)
FilterCallsUpTo(i) ==
    IF i = 0 THEN 0
    ELSE FilterCallsUpTo(i - 1)
         + (IF b[i].kind = "return" THEN Len(HistoryOf(i)) ELSE 0)

\* C8: a series is returned only for a recorded address with at least 2
\* samples; an unrecorded address fails with KeyError (NotFound), a history of
\* exactly 1 sample with StatisticsError (InsufficientData), in both cases
\* before any sample is filtered and without a series.
C8_FailsBeforeFiltering ==
    \A i \in 1..3 :
        LET recorded == filter_beacons[i] \in DOMAIN rssi_values(GlobalRecord) IN
        /\ b[i].kind = "return" => (recorded /\ Len(HistoryOf(i)) >= 2)
        /\ (b[i] # Pending /\ ~recorded) => b[i] = Raise("KeyError")
        /\ (b[i] # Pending /\ recorded /\ Len(HistoryOf(i)) = 1) =>
               b[i] = Raise("StatisticsError")
        /\ b[i].kind = "raise" => filtered_calls = FilterCallsUpTo(i - 1)

\* the first call returned a series, the second met a single-sample history
C8_Witness ==
    /\ b[1].kind = "return"
    /\ filter_beacons[2] \in DOMAIN rssi_values(GlobalRecord)
    /\ Len(HistoryOf(2)) = 1
    /\ b[2] = Raise("StatisticsError")
    /\ filtered_calls = Len(HistoryOf(1))

\* the series distanceCalculate returns for the history h in place of b<i>'s
SeriesFor(i, h) ==
    distanceCalculate([a \in {filter_beacons[i]} |-> h], filter_beacons[i],
                      RefRssi[i], PathLoss).outcome.value

\* C9 as stated: the filtered outputs for the first len(h) samples of an
\* extended history are those distanceCalculate produces for h itself.
C9_NoLookAhead ==
    \A i \in 1..3 :
        b[i].kind = "return" =>
            \A n \in 2..Len(HistoryOf(i)) :
                Prefix(b[i].value.filtered, n) = SeriesFor(i, Prefix(HistoryOf(i), n)).filtered

\* the filtered series of a pass over the samples alone, made by a fresh filter
\* with the given measurement noise
PassWithNoise(i, samples, noise) ==
    distance_loop(KalmanFilter(ProcessNoise, noise), samples,
                  RefRssi[i], PathLoss, <<>>, <<>>).filtered

\* C9 amended: the only look-ahead is the measurement noise.  The filtered
\* outputs for the first n samples are those of a pass over these n samples
\* alone made with the noise of the whole history, and they are the outputs
\* distanceCalculate produces for the prefix whenever the prefix has the same
\* standard deviation as the whole history.
C9_NoLookAheadGivenNoise ==
    \A i \in 1..3 :
        b[i].kind = "return" =>
            LET h == HistoryOf(i)
                noise == stdev(h)
            IN  \A n \in 1..Len(h) :
                    /\ Prefix(b[i].value.filtered, n)
                           = PassWithNoise(i, Prefix(h, n), noise.value)
                    /\ (n >= 2 /\ stdev(Prefix(h, n)) = noise) =>
                          Prefix(b[i].value.filtered, n) = SeriesFor(i, Prefix(h, n)).filtered

\* a history whose first two samples have another deviation than all three
C9_Witness ==
    /\ b[1].kind = "return"
    /\ Len(HistoryOf(1)) = 3
    /\ stdev(Prefix(HistoryOf(1), 2)) # stdev(HistoryOf(1))
    /\ b[2].kind = "return"
    /\ Len(HistoryOf(2)) = 3
    /\ stdev(Prefix(HistoryOf(2), 2)) = stdev(HistoryOf(2))

----------------------------------------------------------------------------
(* Properties of scan_for_beacons, checked under SpecScan *)

\* the history of an address in a dict, empty when the address is not a key
HistoryIn(d, address) == IF address \in DOMAIN d THEN d[address] ELSE <<>>

C10_Step ==
    scans' = scans + 1 =>
        LET call == lastScan'
            old == rssidict[call.recorder]
            new == rssidict'[call.recorder]
        IN  \A address \in Addresses :
                LET seen == {k \in 1..Len(call.devices) :
                                 call.devices[k].address = address}
                IN  IF seen # {} /\ InList(address, call.beaconfilter)
                    THEN \E k \in seen :
                            /\ address \in DOMAIN new
                            /\ new[address] =
                                   Append(HistoryIn(old, address), call.devices[k].rssi)
                    ELSE /\ (address \in DOMAIN new) <=> (address \in DOMAIN old)
                         /\ HistoryIn(new, address) = HistoryIn(old, address)

\* C10: every call appends exactly one sample, the advertisement's rssi, to
\* the history of each discovered address of the filter in the recorder passed
\* as argument, and changes no history for any other address.
C10_RecordsIntoRecorderArgument == [][C10_Step]_vars

====
